---- MODULE Spec2Model ----
(***************************************************************************)
(* Initialization of the package lpci (src/src/lpci/__init__.py).          *)
(*                                                                         *)
(* The package body is four statements executed top to bottom:             *)
(*     2:  __version__ = "0.1.0"                                           *)
(*     5:  from .lpci import LPCI                                          *)
(*     6:  from .evaluate import EvaluateLPCI                              *)
(*     9:  __all__ = ['LPCI', 'EvaluateLPCI']                              *)
(*                                                                         *)
(* The state is the module namespace (a finite map from names to values),  *)
(* the interpreter's table of loaded modules, the position in the body,    *)
(* and the two sibling modules the import statements resolve against.      *)
(* Values are tagged tuples of strings: <<"str", s>>, <<"obj", id>>,       *)
(* <<"module", qualified name>>, <<"list", n1, n2, ...>>.                  *)
(***************************************************************************)
EXTENDS Naturals, Sequences, FiniteSets, TLC

VARIABLES pc, ns, sysModules, lpciMod, evaluateMod, trace

vars == <<pc, ns, sysModules, lpciMod, evaluateMod, trace>>

(* Number of distinct objects a sibling module may bind a name to. *)
NumObjects == 2

Objects == {ToString(i) : i \in 1..NumObjects}

(* Names a sibling module may define at its top level. *)
AttrNames == {"LPCI", "EvaluateLPCI"}

(* A sibling module: either it cannot be found, or it is a namespace       *)
(* mapping some of AttrNames to objects.                                   *)
Submodules ==
  {[present |-> FALSE, attrs |-> <<>>]} \cup
  {[present |-> TRUE, attrs |-> f] :
     f \in UNION {[D -> Objects] : D \in SUBSET AttrNames}}

Provides(m, name) == m.present /\ name \in DOMAIN m.attrs

(* ns with name bound (or rebound) to value. *)
Bind(f, name, value) ==
  [n \in DOMAIN f \cup {name} |-> IF n = name THEN value ELSE f[n]]

Bound(name) == name \in DOMAIN ns

Terminal == {"initialized", "failed"}

(* Line 2: the version literal. *)
VersionString_empty == ""
VersionString == "0.1.0"

(* Line 9: the export list literal. *)
AllNames_withVersion == <<"LPCI", "EvaluateLPCI", "__version__">>
AllNames_typo == <<"LPCI", "EvaluateLCPI">>
AllNames == <<"LPCI", "EvaluateLPCI">>

(* The module object exists, is registered, and carries its own name       *)
(* before the first statement of the body runs.                            *)
Init ==
  /\ pc = "version"
  /\ ns = [n \in {"__name__"} |-> <<"str", "lpci">>]
  /\ sysModules = {"lpci"}
  /\ lpciMod \in Submodules
  /\ evaluateMod \in Submodules
  /\ trace = <<>>

(* Variant: the first statement hands control to the second import. *)
SetVersion_skipImport ==
  /\ pc = "version"
  /\ ns' = Bind(ns, "__version__", <<"str", VersionString>>)
  /\ pc' = "import_evaluate"
  /\ trace' = Append(trace, "version")
  /\ UNCHANGED <<sysModules, lpciMod, evaluateMod>>

(* Line 2:  __version__ = "0.1.0" *)
SetVersion ==
  /\ pc = "version"
  /\ ns' = Bind(ns, "__version__", <<"str", VersionString>>)
  /\ pc' = "import_lpci"
  /\ trace' = Append(trace, "version")
  /\ UNCHANGED <<sysModules, lpciMod, evaluateMod>>

(* Variant: a sibling module that cannot be found is skipped silently. *)
ImportFrom_ignoreMissing(m, sub, qual, name, here, next) ==
  /\ pc = here
  /\ trace' = Append(trace, here)
  /\ IF ~m.present
       THEN /\ pc' = next
            /\ UNCHANGED <<ns, sysModules>>
       ELSE /\ sysModules' = sysModules \cup {qual}
            /\ IF name \in DOMAIN m.attrs
                 THEN /\ ns' = Bind(Bind(ns, sub, <<"module", qual>>),
                                    name, <<"obj", m.attrs[name]>>)
                      /\ pc' = next
                 ELSE /\ ns' = Bind(ns, sub, <<"module", qual>>)
                      /\ pc' = "failed"
  /\ UNCHANGED <<lpciMod, evaluateMod>>

(* Variant: a successful import also rebinds __version__ to the imported   *)
(* object.                                                                 *)
ImportFrom_clobber(m, sub, qual, name, here, next) ==
  /\ pc = here
  /\ trace' = Append(trace, here)
  /\ IF ~m.present
       THEN /\ pc' = "failed"
            /\ UNCHANGED <<ns, sysModules>>
       ELSE /\ sysModules' = sysModules \cup {qual}
            /\ IF name \in DOMAIN m.attrs
                 THEN /\ ns' = Bind(Bind(Bind(ns, sub, <<"module", qual>>),
                                         name, <<"obj", m.attrs[name]>>),
                                    "__version__", <<"obj", m.attrs[name]>>)
                      /\ pc' = next
                 ELSE /\ ns' = Bind(ns, sub, <<"module", qual>>)
                      /\ pc' = "failed"
  /\ UNCHANGED <<lpciMod, evaluateMod>>

(* Variant: a failing import binds the requested name to a placeholder     *)
(* before the error propagates.                                            *)
ImportFrom_bindOnFail(m, sub, qual, name, here, next) ==
  /\ pc = here
  /\ trace' = Append(trace, here)
  /\ IF ~m.present
       THEN /\ pc' = "failed"
            /\ ns' = Bind(ns, name, <<"obj", "None">>)
            /\ UNCHANGED sysModules
       ELSE /\ sysModules' = sysModules \cup {qual}
            /\ IF name \in DOMAIN m.attrs
                 THEN /\ ns' = Bind(Bind(ns, sub, <<"module", qual>>),
                                    name, <<"obj", m.attrs[name]>>)
                      /\ pc' = next
                 ELSE /\ ns' = Bind(Bind(ns, sub, <<"module", qual>>),
                                    name, <<"obj", "None">>)
                      /\ pc' = "failed"
  /\ UNCHANGED <<lpciMod, evaluateMod>>

(* from .sub import name, executed at position here of the package body.   *)
(* The sibling module m is looked up; if it cannot be found the statement  *)
(* raises ModuleNotFoundError and the body stops.  Otherwise the module is *)
(* registered under its qualified name and bound as attribute sub of the   *)
(* package, and then name is fetched from it: if m does not define name    *)
(* the statement raises ImportError and the body stops, else name is bound *)
(* in the package namespace and control passes to next.                    *)
ImportFrom(m, sub, qual, name, here, next) ==
  /\ pc = here
  /\ trace' = Append(trace, here)
  /\ IF ~m.present
       THEN /\ pc' = "failed"
            /\ UNCHANGED <<ns, sysModules>>
       ELSE /\ sysModules' = sysModules \cup {qual}
            /\ IF name \in DOMAIN m.attrs
                 THEN /\ ns' = Bind(Bind(ns, sub, <<"module", qual>>),
                                    name, <<"obj", m.attrs[name]>>)
                      /\ pc' = next
                 ELSE /\ ns' = Bind(ns, sub, <<"module", qual>>)
                      /\ pc' = "failed"
  /\ UNCHANGED <<lpciMod, evaluateMod>>

(* Line 5:  from .lpci import LPCI *)
ImportLPCI ==
  ImportFrom(lpciMod, "lpci", "lpci.lpci", "LPCI",
             "import_lpci", "import_evaluate")

(* Line 6:  from .evaluate import EvaluateLPCI *)
ImportEvaluate ==
  ImportFrom(evaluateMod, "evaluate", "lpci.evaluate", "EvaluateLPCI",
             "import_evaluate", "all")

(* Variant: the last statement can run again after the body has finished.  *)
DeclareAll_again ==
  /\ pc \in {"all", "initialized"}
  /\ Len(trace) < 6
  /\ ns' = Bind(ns, "__all__", <<"list">> \o AllNames)
  /\ pc' = "initialized"
  /\ trace' = Append(trace, "all")
  /\ UNCHANGED <<sysModules, lpciMod, evaluateMod>>

(* Line 9:  __all__ = ['LPCI', 'EvaluateLPCI'] *)
DeclareAll ==
  /\ pc = "all"
  /\ ns' = Bind(ns, "__all__", <<"list">> \o AllNames)
  /\ pc' = "initialized"
  /\ trace' = Append(trace, "all")
  /\ UNCHANGED <<sysModules, lpciMod, evaluateMod>>

Next == SetVersion \/ ImportLPCI \/ ImportEvaluate \/ DeclareAll

Spec == Init /\ [][Next]_vars

(* The interpreter runs the body to completion: a statement that can run   *)
(* does run.                                                               *)
FairSpec == Spec /\ WF_vars(Next)

(* The names listed in __all__, as a set (empty while it is undefined). *)
Exported ==
  IF Bound("__all__")
    THEN {ns["__all__"][i] : i \in 2..Len(ns["__all__"])}
    ELSE {}

(* Number of times step s has been executed. *)
Count(s) == Cardinality({i \in 1..Len(trace) : trace[i] = s})

(* Position of the first execution of step s (0 if never executed). *)
FirstAt(s) ==
  IF \E i \in 1..Len(trace) : trace[i] = s
    THEN CHOOSE i \in 1..Len(trace) :
           trace[i] = s /\ \A j \in 1..(i-1) : trace[j] # s
    ELSE 0

TypeOK ==
  /\ pc \in {"version", "import_lpci", "import_evaluate", "all"} \cup Terminal
  /\ lpciMod \in Submodules
  /\ evaluateMod \in Submodules

BodyOrder == <<"version", "import_lpci", "import_evaluate", "all">>

PublicNames == {"__version__", "LPCI", "EvaluateLPCI", "__all__"}

(* The step that raised, when the body has failed. *)
FailedStep == trace[Len(trace)]

-----------------------------------------------------------------------------

(* C1: once initialization has completed successfully, __all__ is defined  *)
(* and lists exactly the two names LPCI and EvaluateLPCI: both are in it,  *)
(* it has two entries, and __version__ is not one of them.                 *)
C1_ExportListExact ==
  pc = "initialized" =>
    /\ Bound("__all__")
    /\ ns["__all__"][1] = "list"
    /\ Len(ns["__all__"]) = 3
    /\ Exported = {"LPCI", "EvaluateLPCI"}
    /\ "__version__" \notin Exported

C1_Witness ==
  /\ pc = "initialized"
  /\ Bound("__all__")
  /\ "LPCI" \in Exported
  /\ "EvaluateLPCI" \in Exported

(* C2: __version__ is unbound before the first statement and bound by it   *)
(* to the non-empty string "0.1.0"; from then on it stays bound to that    *)
(* value, and no later statement rebinds or removes it.                    *)
C2_VersionStable ==
  /\ [](pc = "version" => ~Bound("__version__"))
  /\ [](pc # "version" =>
          /\ Bound("__version__")
          /\ ns["__version__"] = <<"str", "0.1.0">>
          /\ Len(ns["__version__"][2]) > 0)
  /\ [][Bound("__version__") =>
          /\ Bound("__version__")'
          /\ ns'["__version__"] = ns["__version__"]]_vars

C2_Witness ==
  /\ pc = "initialized"
  /\ Len(trace) = 4
  /\ ns["__version__"] = <<"str", "0.1.0">>

(* C3: initialization never gets past an import whose sibling module is    *)
(* absent and ends in failure then; the initialized state is reached only  *)
(* if .lpci provides LPCI and .evaluate provides EvaluateLPCI.             *)
C3_FailsWithoutSubmodules ==
  /\ ~lpciMod.present => pc \in {"version", "import_lpci", "failed"}
  /\ ~evaluateMod.present => pc \notin {"all", "initialized"}
  /\ (pc \in Terminal /\ (~lpciMod.present \/ ~evaluateMod.present))
       => pc = "failed"
  /\ pc = "initialized" =>
       Provides(lpciMod, "LPCI") /\ Provides(evaluateMod, "EvaluateLPCI")

C3_Witness ==
  /\ pc = "failed"
  /\ Provides(lpciMod, "LPCI")
  /\ ~evaluateMod.present

(* C4 as stated: every step adds at most a binding for one of __version__, *)
(* LPCI, EvaluateLPCI, __all__ to the namespace and changes nothing else:  *)
(* not the bindings already made, not the table of loaded modules, not the *)
(* sibling modules.                                                        *)
C4_OnlyPublicNames ==
  [][/\ (DOMAIN ns') \ (DOMAIN ns) \subseteq PublicNames
     /\ Cardinality((DOMAIN ns') \ (DOMAIN ns)) <= 1
     /\ \A n \in DOMAIN ns : n \in DOMAIN ns' /\ ns'[n] = ns[n]
     /\ sysModules' = sysModules
     /\ lpciMod' = lpciMod
     /\ evaluateMod' = evaluateMod]_vars

(* C4 amended: every step only adds bindings to the namespace, each for    *)
(* one of __version__, LPCI, EvaluateLPCI, __all__ or, in an import step   *)
(* whose sibling module was found, the sibling module's own name (lpci,    *)
(* evaluate), which is then also registered in the table of loaded         *)
(* modules; bindings already made and the sibling modules are unchanged.   *)
C4_FrameAmended ==
  [][/\ (DOMAIN ns') \ (DOMAIN ns) \subseteq
          PublicNames \cup {"lpci", "evaluate"}
     /\ \A n \in DOMAIN ns : n \in DOMAIN ns' /\ ns'[n] = ns[n]
     /\ \A n \in (DOMAIN ns') \ (DOMAIN ns) :
          /\ n = "lpci" => pc = "import_lpci" /\ lpciMod.present
                             /\ ns'[n] = <<"module", "lpci.lpci">>
          /\ n = "evaluate" => pc = "import_evaluate" /\ evaluateMod.present
                             /\ ns'[n] = <<"module", "lpci.evaluate">>
     /\ sysModules \subseteq sysModules'
     /\ sysModules' \ sysModules =
          {ns'[n][2] : n \in ((DOMAIN ns') \ (DOMAIN ns))
                               \cap {"lpci", "evaluate"}}
     /\ lpciMod' = lpciMod
     /\ evaluateMod' = evaluateMod]_vars

C4_Witness ==
  /\ Bound("lpci")
  /\ Bound("LPCI")
  /\ "lpci.lpci" \in sysModules
  /\ pc = "import_evaluate"

(* C5: the statements run in the order version, import of .lpci, import of *)
(* .evaluate, __all__: whenever __all__ is defined the other three names   *)
(* are bound, and the import of .evaluate is attempted only after the      *)
(* import of .lpci has been executed and has bound LPCI.                   *)
C5_FixedOrder ==
  /\ Len(trace) <= Len(BodyOrder)
  /\ \A i \in 1..Len(trace) : i <= Len(BodyOrder) => trace[i] = BodyOrder[i]
  /\ Bound("__all__") =>
       Bound("__version__") /\ Bound("LPCI") /\ Bound("EvaluateLPCI")
  /\ (pc = "import_evaluate" \/ Count("import_evaluate") > 0) =>
       /\ Bound("LPCI")
       /\ Count("import_lpci") > 0
       /\ Count("import_evaluate") > 0 =>
            FirstAt("import_lpci") < FirstAt("import_evaluate")

C5_Witness ==
  /\ Bound("__all__")
  /\ trace = BodyOrder

(* C6: initialization always reaches a terminal state (initialized or      *)
(* failed) within four steps, each statement is executed at most once, and *)
(* from a terminal state no step is taken and the namespace is unchanged.  *)
C6_OneTimeTermination ==
  /\ <>(pc \in Terminal)
  /\ [](Len(trace) <= 4 /\ \A i \in 1..4 : Count(BodyOrder[i]) <= 1)
  /\ [][(pc \in Terminal) => (ns' = ns /\ pc' = pc /\ trace' = trace)]_vars

C6_Witness ==
  /\ pc \in Terminal
  /\ Len(trace) >= 2
  /\ \A i \in 1..Len(trace) : Count(trace[i]) = 1

(* C7: whenever __all__ is defined, every name it lists is bound in the    *)
(* module namespace.                                                       *)
C7_ExportsBound ==
  Bound("__all__") => \A n \in Exported : Bound(n)

C7_Witness ==
  /\ Bound("__all__")
  /\ Cardinality(Exported) = 2
  /\ Exported \subseteq DOMAIN ns

(* C8: when an import fails the body stops at that step with __version__   *)
(* bound, __all__ undefined and EvaluateLPCI unbound; LPCI is unbound if   *)
(* the failing import is that of .lpci and bound if it is that of          *)
(* .evaluate.                                                              *)
C8_PartialOnFailure ==
  pc = "failed" =>
    /\ FailedStep \in {"import_lpci", "import_evaluate"}
    /\ Bound("__version__")
    /\ ~Bound("__all__")
    /\ ~Bound("EvaluateLPCI")
    /\ FailedStep = "import_lpci" => ~Bound("LPCI") /\ Len(trace) = 2
    /\ FailedStep = "import_evaluate" => Bound("LPCI") /\ Len(trace) = 3

C8_Witness ==
  /\ pc = "failed"
  /\ FailedStep = "import_evaluate"
  /\ Bound("LPCI")
  /\ ~Bound("EvaluateLPCI")
====
